---- MODULE Spec2Model ----
(***************************************************************************)
(* Model of spanner/src/transaction_rw.rs: ReadWriteTransaction, its       *)
(* begin / buffer_write / update / batch_update / finish / commit /        *)
(* rollback operations and the free function commit.                       *)
(*                                                                         *)
(* Every method takes `&mut self` (begin takes the session by value), so   *)
(* calls on one transaction are serialised by the borrow checker: each     *)
(* call is one action.  The server's reply to each RPC of a call is an     *)
(* input of the action.                                                    *)
(***************************************************************************)
EXTENDS Integers, Sequences, FiniteSets, TLC

\* ------------------------------------------------------------------ bounds
\* Number of calls made on one transaction after begin.
MaxCalls == 3

\* ------------------------------------------------------------ input values
Sessions == {"sessions/a", "sessions/b"}
TxIds == {"TX1", "TX2"}
\* Arguments of buffer_write: empty, one mutation, two in either order, a repeat.
WriteArgs == {<<>>, <<"m1">>, <<"m1", "m2">>, <<"m2", "m1">>, <<"m1", "m1">>}
Statements == {"UPDATE t"}
\* Arguments of batch_update: no statement, one, two.
StatementBatches == {<<>>, <<"UPDATE t">>, <<"UPDATE t", "UPDATE t">>}
Values == {"v1", "v2"}
ErrIds == {1, 2}
CommitTimes == {10}
\* tonic::Code values a server reply or a caller's error can carry.
Codes == {"Aborted", "NotFound", "DeadlineExceeded", "Cancelled"}

\* ------------------------------------------------------ Result and Option
Ok(v) == [ok |-> TRUE, val |-> v]
Err(e) == [ok |-> FALSE, err |-> e]
None == [some |-> FALSE]
Some(v) == [some |-> TRUE, v |-> v]

\* The caller's error type E (E: AsTonicStatus + From<tonic::Status>).
\* A business-logic error has an identity and may carry a tonic status.
UserErrors == [src : {"user"}, id : ErrIds, status : {None} \cup {Some(c) : c \in Codes}]
\* E::from(tonic::Status)
E_from(status) == [src |-> "tonic", status |-> Some(status)]
\* AsTonicStatus::as_tonic_status
as_tonic_status(err) == err.status

\* ---------------------------------------------------------- server replies
BeginReplies == {Ok([id |-> t]) : t \in TxIds} \cup {Err(c) : c \in Codes}
CommitReplies == {Ok([commit_timestamp |-> ts]) : ts \in {None} \cup {Some(t) : t \in CommitTimes}}
                    \cup {Err(c) : c \in Codes}
RollbackReplies == {Ok("unit")} \cup {Err(c) : c \in Codes}
RowCountExact(v) == [kind |-> "RowCountExact", v |-> v]
RowCountLowerBound(v) == [kind |-> "RowCountLowerBound", v |-> v]
NoStats == None
NoRowCount == Some([row_count |-> None])
Exact5 == Some([row_count |-> Some(RowCountExact(5))])
LowerBound7 == Some([row_count |-> Some(RowCountLowerBound(7))])
StatsValues == {NoStats, NoRowCount, Exact5, LowerBound7}
ExecuteSqlReplies == {Ok([stats |-> s]) : s \in StatsValues} \cup {Err(c) : c \in Codes}
\* Result sets of a batch reply: none, one, two, three, with distinct row counts.
ResultSetLists == {<<>>, <<[stats |-> Exact5]>>,
                   <<[stats |-> LowerBound7], [stats |-> NoStats]>>,
                   <<[stats |-> NoRowCount], [stats |-> Exact5], [stats |-> LowerBound7]>>}
ExecuteBatchDmlReplies == {Ok([result_sets |-> rs]) : rs \in ResultSetLists}
                             \cup {Err(c) : c \in Codes}

VARIABLES
    state,                \* "idle": begin not called yet; "open": begin returned the
                          \* transaction; "failed": begin returned a BeginError
    session,              \* the ManagedSession: [name, valid]
    tx_id,                \* ReadWriteTransaction.tx_id
    transaction_selector, \* Transaction.transaction_selector
    sequence_number,      \* Transaction.sequence_number
    wb,                   \* ReadWriteTransaction.wb
    seqnos,               \* the seqno of every ExecuteSql / ExecuteBatchDml request sent, in order
    last,                 \* the last completed call: operation, argument, RPCs, reports, return value
    bw_args,              \* the arguments of the buffer_write calls made so far, in order
    nfinish,              \* number of finish calls completed on the transaction
    ncalls                \* number of calls made on the transaction

vars == <<state, session, tx_id, transaction_selector, sequence_number, wb,
          seqnos, last, bw_args, nfinish, ncalls>>

\* ------------------------------------------------------------ collaborators
\* ManagedSession::invalidate_if_needed (session_pool): hands the result back
\* unchanged and lets the handle mark itself invalid on a failure that means
\* the session no longer exists server-side.
invalidate_if_needed(s, result) ==
    [session |-> IF ~result.ok /\ result.err = "NotFound"
                 THEN [s EXCEPT !.valid = FALSE] ELSE s,
     result |-> result]

\* Transaction::get_session_name (transaction): the name of the session the
\* transaction is bound to.
get_session_name(s) == s.name

\* AtomicI64::fetch_add(1, Relaxed): the stored value after the call.  The
\* counter is an i64; MaxCalls keeps it far below the point where it wraps.
fetch_add(n) == n + 1

\* What one call did: the session handle after it, the RPCs it sent with the
\* reply to each, the results it reported to the session handle, its return value.
Effect(s, rpcs, reports, ret) ==
    [session |-> s, rpcs |-> rpcs, reports |-> reports, ret |-> ret]

\* ------------------------------------------------------------------- begin
\* begin_internal, handing back a BeginError whose session handle is not the one
\* it was given.
begin_internal_session_dropped(s, mode, reply) ==
    LET request == [rpc |-> "BeginTransaction", session |-> s.name, mode |-> mode]
        reported == invalidate_if_needed(s, reply)
    IN  IF reported.result.ok
        THEN Effect(reported.session, <<[req |-> request, res |-> reply]>>, <<reply>>,
                    Ok([session |-> reported.session,
                        sequence_number |-> 0,
                        transaction_selector |-> [id |-> reported.result.val.id],
                        tx_id |-> reported.result.val.id,
                        wb |-> <<>>]))
        ELSE Effect(reported.session, <<[req |-> request, res |-> reply]>>, <<reply>>,
                    Err([status |-> reported.result.err,
                         session |-> [name |-> "", valid |-> FALSE]]))

begin_internal(s, mode, reply) ==
    LET request == [rpc |-> "BeginTransaction", session |-> s.name, mode |-> mode]
        reported == invalidate_if_needed(s, reply)
    IN  IF reported.result.ok
        THEN Effect(reported.session, <<[req |-> request, res |-> reply]>>, <<reply>>,
                    Ok([session |-> reported.session,
                        sequence_number |-> 0,
                        transaction_selector |-> [id |-> reported.result.val.id],
                        tx_id |-> reported.result.val.id,
                        wb |-> <<>>]))
        ELSE Effect(reported.session, <<[req |-> request, res |-> reply]>>, <<reply>>,
                    Err([status |-> reported.result.err, session |-> reported.session]))

begin(s, reply) == begin_internal(s, "ReadWrite", reply)

begin_partitioned_dml(s, reply) == begin_internal(s, "PartitionedDml", reply)

\* ------------------------------------------------------------ buffer_write
\* buffer_write, putting the argument in front of the buffer.
buffer_write_prepending(buf, ms) == ms \o buf

\* buffer_write, replacing the buffer by the argument.
buffer_write_replacing(buf, ms) == ms

buffer_write(buf, ms) == buf \o ms

\* ------------------------------------------------------- update, batch_update
\* extract_row_count, counting only an exact row count.
extract_row_count_exact_only(rs) ==
    IF rs.some
    THEN IF rs.v.row_count.some
         THEN CASE rs.v.row_count.v.kind = "RowCountExact" -> rs.v.row_count.v.v
                [] OTHER -> 0
         ELSE 0
    ELSE 0

extract_row_count(rs) ==
    IF rs.some
    THEN IF rs.v.row_count.some
         THEN CASE rs.v.row_count.v.kind = "RowCountExact" -> rs.v.row_count.v.v
                [] rs.v.row_count.v.kind = "RowCountLowerBound" -> rs.v.row_count.v.v
         ELSE 0
    ELSE 0

\* Apply f to every element of a sequence (Iterator::map ... collect).
Map(f(_), xs) == [i \in 1..Len(xs) |-> f(xs[i])]

\* update, advancing the sequence number only when the RPC succeeded.
update_seqno_advanced_on_success(s, selector, seq, stmt, reply) ==
    LET request == [rpc |-> "ExecuteSql", session |-> get_session_name(s), transaction |-> selector,
                    sql |-> stmt, seqno |-> seq]
        reported == invalidate_if_needed(s, reply)
    IN  [eff |-> Effect(reported.session, <<[req |-> request, res |-> reply]>>, <<reply>>,
                        IF reported.result.ok
                        THEN Ok(extract_row_count(reported.result.val.stats))
                        ELSE Err(reported.result.err)),
         sequence_number |-> IF reply.ok THEN fetch_add(seq) ELSE seq]

\* update, turning a failed RPC into a row count of 0.
update_failure_swallowed(s, selector, seq, stmt, reply) ==
    LET request == [rpc |-> "ExecuteSql", session |-> get_session_name(s), transaction |-> selector,
                    sql |-> stmt, seqno |-> seq]
        reported == invalidate_if_needed(s, reply)
    IN  [eff |-> Effect(reported.session, <<[req |-> request, res |-> reply]>>, <<reply>>,
                        IF reported.result.ok
                        THEN Ok(extract_row_count(reported.result.val.stats))
                        ELSE Ok(0)),
         sequence_number |-> fetch_add(seq)]

\* update, reading the sequence number without advancing it.
update_seqno_not_advanced(s, selector, seq, stmt, reply) ==
    LET request == [rpc |-> "ExecuteSql", session |-> get_session_name(s), transaction |-> selector,
                    sql |-> stmt, seqno |-> seq]
        reported == invalidate_if_needed(s, reply)
    IN  [eff |-> Effect(reported.session, <<[req |-> request, res |-> reply]>>, <<reply>>,
                        IF reported.result.ok
                        THEN Ok(extract_row_count(reported.result.val.stats))
                        ELSE Err(reported.result.err)),
         sequence_number |-> seq]

update(s, selector, seq, stmt, reply) ==
    LET request == [rpc |-> "ExecuteSql", session |-> get_session_name(s), transaction |-> selector,
                    sql |-> stmt, seqno |-> seq]
        reported == invalidate_if_needed(s, reply)
    IN  [eff |-> Effect(reported.session, <<[req |-> request, res |-> reply]>>, <<reply>>,
                        IF reported.result.ok
                        THEN Ok(extract_row_count(reported.result.val.stats))
                        ELSE Err(reported.result.err)),
         sequence_number |-> fetch_add(seq)]

\* batch_update, taking one sequence number per statement.
batch_update_seqno_per_statement(s, selector, seq, stmts, reply) ==
    LET request == [rpc |-> "ExecuteBatchDml", session |-> get_session_name(s), transaction |-> selector,
                    seqno |-> seq, statements |-> stmts]
        reported == invalidate_if_needed(s, reply)
        stats(x) == extract_row_count(x.stats)
    IN  [eff |-> Effect(reported.session, <<[req |-> request, res |-> reply]>>, <<reply>>,
                        IF reported.result.ok
                        THEN Ok(Map(stats, reported.result.val.result_sets))
                        ELSE Err(reported.result.err)),
         sequence_number |-> seq + Len(stmts)]

batch_update(s, selector, seq, stmts, reply) ==
    LET request == [rpc |-> "ExecuteBatchDml", session |-> get_session_name(s), transaction |-> selector,
                    seqno |-> seq, statements |-> stmts]
        reported == invalidate_if_needed(s, reply)
        stats(x) == extract_row_count(x.stats)
    IN  [eff |-> Effect(reported.session, <<[req |-> request, res |-> reply]>>, <<reply>>,
                        IF reported.result.ok
                        THEN Ok(Map(stats, reported.result.val.result_sets))
                        ELSE Err(reported.result.err)),
         sequence_number |-> fetch_add(seq)]

\* -------------------------------------------------------- commit, rollback
\* commit, sending the request again when the reply is ABORTED.
commit_retrying_aborted(s, ms, tx, reply) ==
    LET request == [rpc |-> "Commit", session |-> s.name, mutations |-> ms, transaction |-> tx]
        reported == invalidate_if_needed(s, reply)
        sent == [req |-> request, res |-> reply]
    IN  IF ~reply.ok /\ reply.err = "Aborted"
        THEN Effect(reported.session, <<sent, sent>>, <<reply, reply>>, Err(reported.result.err))
        ELSE Effect(reported.session, <<sent>>, <<reply>>,
                    IF reported.result.ok THEN Ok(reported.result.val)
                                          ELSE Err(reported.result.err))

\* The free function commit(session, ms, tx, commit_options).
commit(s, ms, tx, reply) ==
    LET request == [rpc |-> "Commit", session |-> s.name, mutations |-> ms, transaction |-> tx]
        reported == invalidate_if_needed(s, reply)
    IN  Effect(reported.session, <<[req |-> request, res |-> reply]>>, <<reply>>,
               IF reported.result.ok THEN Ok(reported.result.val) ELSE Err(reported.result.err))

\* self.wb.to_vec(), moving the buffer out and leaving it empty.
to_vec_taking(buf) == [copy |-> buf, kept |-> <<>>]

\* self.wb.to_vec(): a copy of the buffer for the request; the buffer is kept.
to_vec(buf) == [copy |-> buf, kept |-> buf]

\* ReadWriteTransaction::commit, leaving the transaction id of the request empty.
ReadWriteTransaction_commit_without_id(s, id, buf, reply) ==
    commit(s, to_vec(buf).copy, [id |-> ""], reply)

\* ReadWriteTransaction::commit
ReadWriteTransaction_commit(s, id, buf, reply) ==
    commit(s, to_vec(buf).copy, [id |-> id], reply)

\* rollback, matching on the RPC result without handing it to the session.
rollback_unreported(s, id, reply) ==
    LET request == [rpc |-> "Rollback", transaction_id |-> id, session |-> get_session_name(s)]
    IN  Effect(s, <<[req |-> request, res |-> reply]>>, <<>>,
               IF reply.ok THEN Ok(reply.val) ELSE Err(reply.err))

\* ReadWriteTransaction::rollback
rollback(s, id, reply) ==
    LET request == [rpc |-> "Rollback", transaction_id |-> id, session |-> get_session_name(s)]
        reported == invalidate_if_needed(s, reply)
    IN  Effect(reported.session, <<[req |-> request, res |-> reply]>>, <<reply>>,
               IF reported.result.ok THEN Ok(reported.result.val) ELSE Err(reported.result.err))

\* ------------------------------------------------------------------ finish
\* finish_Ok, dropping the commit timestamp of the response.
finish_Ok_no_timestamp(s, id, buf, v, commit_reply) ==
    LET c == ReadWriteTransaction_commit(s, id, buf, commit_reply)
    IN  Effect(c.session, c.rpcs, c.reports,
               IF c.ret.ok THEN Ok(<<None, v>>) ELSE Err(E_from(c.ret.err)))

\* finish_Ok, rolling back after a failed commit.
finish_Ok_rollback_after_commit(s, id, buf, v, commit_reply) ==
    LET c == ReadWriteTransaction_commit(s, id, buf, commit_reply)
        rb == rollback(c.session, id, Ok("unit"))
    IN  IF c.ret.ok
        THEN Effect(c.session, c.rpcs, c.reports, Ok(<<c.ret.val.commit_timestamp, v>>))
        ELSE Effect(rb.session, c.rpcs \o rb.rpcs, c.reports \o rb.reports,
                    Err(E_from(c.ret.err)))

\* The Ok arm of finish: commit, then pair the commit timestamp with the value.
finish_Ok(s, id, buf, v, commit_reply) ==
    LET c == ReadWriteTransaction_commit(s, id, buf, commit_reply)
    IN  Effect(c.session, c.rpcs, c.reports,
               IF c.ret.ok THEN Ok(<<c.ret.val.commit_timestamp, v>>)
                           ELSE Err(E_from(c.ret.err)))

\* finish_Err, rolling back on NOT_FOUND too.
finish_Err_rollback_on_not_found(s, id, err, rollback_reply) ==
    LET status == as_tonic_status(err)
        rb == rollback(s, id, rollback_reply)
        rolled_back == Effect(rb.session, rb.rpcs, rb.reports, Err(err))
        untouched == Effect(s, <<>>, <<>>, Err(err))
    IN  IF ~status.some
        THEN rolled_back
        ELSE CASE status.v = "Aborted" -> untouched
               [] OTHER -> rolled_back

\* finish_Err, returning an error without a status as it is, with no rollback.
finish_Err_no_rollback_without_status(s, id, err, rollback_reply) ==
    LET status == as_tonic_status(err)
        rb == rollback(s, id, rollback_reply)
        rolled_back == Effect(rb.session, rb.rpcs, rb.reports, Err(err))
        untouched == Effect(s, <<>>, <<>>, Err(err))
    IN  IF ~status.some
        THEN untouched
        ELSE CASE status.v = "Aborted" -> untouched
               [] status.v = "NotFound" -> untouched
               [] OTHER -> rolled_back

\* finish_Err, rolling back only when the error carries no status.
finish_Err_no_rollback_on_other_status(s, id, err, rollback_reply) ==
    LET status == as_tonic_status(err)
        rb == rollback(s, id, rollback_reply)
        rolled_back == Effect(rb.session, rb.rpcs, rb.reports, Err(err))
        untouched == Effect(s, <<>>, <<>>, Err(err))
    IN  IF ~status.some THEN rolled_back ELSE untouched

\* finish_Err, propagating the rollback's failure with `?`.
finish_Err_rollback_error_returned(s, id, err, rollback_reply) ==
    LET status == as_tonic_status(err)
        rb == rollback(s, id, rollback_reply)
        rolled_back == Effect(rb.session, rb.rpcs, rb.reports,
                              IF rb.ret.ok THEN Err(err) ELSE Err(E_from(rb.ret.err)))
        untouched == Effect(s, <<>>, <<>>, Err(err))
    IN  IF ~status.some
        THEN rolled_back
        ELSE CASE status.v = "Aborted" -> untouched
               [] status.v = "NotFound" -> untouched
               [] OTHER -> rolled_back

\* finish_Err, returning the extracted status converted back to E.
finish_Err_status_rewrapped(s, id, err, rollback_reply) ==
    LET status == as_tonic_status(err)
        rb == rollback(s, id, rollback_reply)
        rolled_back == Effect(rb.session, rb.rpcs, rb.reports, Err(err))
        rewrapped == Effect(s, <<>>, <<>>, Err(E_from(status.v)))
    IN  IF ~status.some
        THEN rolled_back
        ELSE CASE status.v = "Aborted" -> rewrapped
               [] status.v = "NotFound" -> rewrapped
               [] OTHER -> rolled_back

\* The Err arm of finish: roll back unless the error carries ABORTED or NOT_FOUND.
finish_Err(s, id, err, rollback_reply) ==
    LET status == as_tonic_status(err)
        rb == rollback(s, id, rollback_reply)
        rolled_back == Effect(rb.session, rb.rpcs, rb.reports, Err(err))
        untouched == Effect(s, <<>>, <<>>, Err(err))
    IN  IF ~status.some
        THEN rolled_back
        ELSE CASE status.v = "Aborted" -> untouched
               [] status.v = "NotFound" -> untouched
               [] OTHER -> rolled_back

\* finish sends at most one RPC; reply is the server's reply to it.
finish(s, id, buf, result, reply) ==
    IF result.ok
    THEN finish_Ok(s, id, buf, result.val, reply)
    ELSE finish_Err(s, id, result.err, reply)

\* ================================================================= actions
\* The seqno fields of the requests a call sent.
Seqnos(eff) == [i \in 1..Len(eff.rpcs) |-> eff.rpcs[i].req.seqno]

Call(op, arg, eff) ==
    [op |-> op, arg |-> arg, rpcs |-> eff.rpcs, reports |-> eff.reports, ret |-> eff.ret]

Init ==
    /\ state = "idle"
    /\ session \in [name : Sessions, valid : {TRUE}]
    /\ tx_id = ""
    /\ transaction_selector = [id |-> ""]
    /\ sequence_number = 0
    /\ wb = <<>>
    /\ seqnos = <<>>
    /\ last = [op |-> "none", arg |-> <<>>, rpcs |-> <<>>, reports |-> <<>>, ret |-> Ok("unit")]
    /\ bw_args = <<>>
    /\ nfinish = 0
    /\ ncalls = 0

\* The caller begins a transaction on its leased session.  A failed begin hands
\* the session back in the BeginError and creates no transaction.
Began(op, eff) ==
    /\ last' = Call(op, session, eff)
    /\ IF eff.ret.ok
       THEN /\ state' = "open"
            /\ session' = eff.ret.val.session
            /\ tx_id' = eff.ret.val.tx_id
            /\ transaction_selector' = eff.ret.val.transaction_selector
            /\ sequence_number' = eff.ret.val.sequence_number
            /\ wb' = eff.ret.val.wb
       ELSE /\ state' = "failed"
            /\ session' = eff.ret.err.session
            /\ UNCHANGED <<tx_id, transaction_selector, sequence_number, wb>>
    /\ UNCHANGED <<seqnos, bw_args, nfinish, ncalls>>

Begin ==
    /\ state = "idle"
    /\ \E reply \in BeginReplies : Began("begin", begin(session, reply))

BeginPartitionedDml ==
    /\ state = "idle"
    /\ \E reply \in BeginReplies :
          Began("begin_partitioned_dml", begin_partitioned_dml(session, reply))

BufferWrite ==
    /\ state = "open"
    /\ ncalls < MaxCalls
    /\ \E ms \in WriteArgs :
          /\ wb' = buffer_write(wb, ms)
          /\ bw_args' = Append(bw_args, ms)
          /\ last' = [op |-> "buffer_write", arg |-> ms, rpcs |-> <<>>, reports |-> <<>>,
                      ret |-> Ok("unit")]
    /\ ncalls' = ncalls + 1
    /\ UNCHANGED <<state, session, tx_id, transaction_selector, sequence_number, seqnos, nfinish>>

Update ==
    /\ state = "open"
    /\ ncalls < MaxCalls
    /\ \E stmt \in Statements, reply \in ExecuteSqlReplies :
          LET r == update(session, transaction_selector, sequence_number, stmt, reply)
          IN  /\ sequence_number' = r.sequence_number
              /\ session' = r.eff.session
              /\ seqnos' = seqnos \o Seqnos(r.eff)
              /\ last' = Call("update", stmt, r.eff)
    /\ ncalls' = ncalls + 1
    /\ UNCHANGED <<state, tx_id, transaction_selector, wb, bw_args, nfinish>>

BatchUpdate ==
    /\ state = "open"
    /\ ncalls < MaxCalls
    /\ \E stmts \in StatementBatches, reply \in ExecuteBatchDmlReplies :
          LET r == batch_update(session, transaction_selector, sequence_number, stmts, reply)
          IN  /\ sequence_number' = r.sequence_number
              /\ session' = r.eff.session
              /\ seqnos' = seqnos \o Seqnos(r.eff)
              /\ last' = Call("batch_update", stmts, r.eff)
    /\ ncalls' = ncalls + 1
    /\ UNCHANGED <<state, tx_id, transaction_selector, wb, bw_args, nfinish>>

Finish ==
    /\ state = "open"
    /\ ncalls < MaxCalls
    /\ \E result \in {Ok(v) : v \in Values} \cup {Err(e) : e \in UserErrors} :
       \E reply \in IF result.ok THEN CommitReplies ELSE RollbackReplies :
          LET eff == finish(session, tx_id, wb, result, reply)
          IN  /\ session' = eff.session
              /\ last' = Call("finish", result, eff)
              \* only the Ok arm calls commit, which reads the buffer
              /\ wb' = IF result.ok THEN to_vec(wb).kept ELSE wb
    /\ nfinish' = nfinish + 1
    /\ ncalls' = ncalls + 1
    /\ UNCHANGED <<state, tx_id, transaction_selector, sequence_number, seqnos, bw_args>>

Commit ==
    /\ state = "open"
    /\ ncalls < MaxCalls
    /\ \E reply \in CommitReplies :
          LET eff == ReadWriteTransaction_commit(session, tx_id, wb, reply)
          IN  /\ session' = eff.session
              /\ last' = Call("commit", <<>>, eff)
    /\ wb' = to_vec(wb).kept
    /\ ncalls' = ncalls + 1
    /\ UNCHANGED <<state, tx_id, transaction_selector, sequence_number, seqnos, bw_args, nfinish>>

Rollback ==
    /\ state = "open"
    /\ ncalls < MaxCalls
    /\ \E reply \in RollbackReplies :
          LET eff == rollback(session, tx_id, reply)
          IN  /\ session' = eff.session
              /\ last' = Call("rollback", <<>>, eff)
    /\ ncalls' = ncalls + 1
    /\ UNCHANGED <<state, tx_id, transaction_selector, sequence_number, wb, seqnos, bw_args, nfinish>>

Next ==
    \/ Begin
    \/ BeginPartitionedDml
    \/ BufferWrite
    \/ Update
    \/ BatchUpdate
    \/ Finish
    \/ Commit
    \/ Rollback

Spec == Init /\ [][Next]_vars

\* ================================================================== claims
\* The RPCs of the last call that went to the given method.
RpcsOf(kind) == {i \in 1..Len(last.rpcs) : last.rpcs[i].req.rpc = kind}

FinishOk == last.op = "finish" /\ last.arg.ok
FinishErr == last.op = "finish" /\ ~last.arg.ok
CommitFailed == \E i \in RpcsOf("Commit") : ~last.rpcs[i].res.ok

\* C1: a finish call given Ok(v) in which no commit RPC failed has sent exactly
\* one RPC, a commit and no rollback, and returns Ok((t, v)) with t the commit
\* timestamp of the server's commit response.
C1_FinishCommits ==
    (FinishOk /\ ~CommitFailed) =>
        /\ Len(last.rpcs) = 1
        /\ last.rpcs[1].req.rpc = "Commit"
        /\ last.rpcs[1].res.ok
        /\ last.ret = Ok(<<last.rpcs[1].res.val.commit_timestamp, last.arg.val>>)

C1_Witness ==
    /\ FinishOk
    /\ Len(last.rpcs) = 1
    /\ last.rpcs[1].res = Ok([commit_timestamp |-> Some(10)])
    /\ last.ret = Ok(<<Some(10), "v2">>)

\* C2: a finish call given Ok(v) whose commit RPC failed, with whatever status,
\* has sent no rollback RPC and returns the commit error (converted to E).
C2_CommitFailureNotRolledBack ==
    (FinishOk /\ CommitFailed) =>
        /\ RpcsOf("Rollback") = {}
        /\ Len(last.rpcs) = 1
        /\ last.ret = Err(E_from(last.rpcs[1].res.err))

C2_Witness ==
    /\ FinishOk
    /\ Len(last.rpcs) = 1
    /\ last.rpcs[1].req.rpc = "Commit"
    /\ last.rpcs[1].res = Err("Aborted")
    /\ last.ret = Err(E_from("Aborted"))

\* C3: a finish call given a failure whose status is ABORTED or NOT_FOUND has
\* sent no RPC at all and returns that same failure.
C3_AbortedNotFoundUntouched ==
    (FinishErr /\ last.arg.err.status \in {Some("Aborted"), Some("NotFound")}) =>
        /\ last.rpcs = <<>>
        /\ last.ret = last.arg

C3_Witness ==
    /\ FinishErr
    /\ last.arg.err = [src |-> "user", id |-> 2, status |-> Some("NotFound")]
    /\ last.rpcs = <<>>
    /\ last.ret = last.arg

\* C4: a finish call given a failure that carries no status has sent exactly one
\* RPC, a rollback whose reply it waited for, no commit, and returns the original
\* failure.
C4_NoStatusRollsBack ==
    (FinishErr /\ last.arg.err.status = None) =>
        /\ Len(last.rpcs) = 1
        /\ last.rpcs[1].req.rpc = "Rollback"
        /\ last.reports = <<last.rpcs[1].res>>
        /\ last.ret = last.arg

C4_Witness ==
    /\ FinishErr
    /\ last.arg.err = [src |-> "user", id |-> 1, status |-> None]
    /\ RpcsOf("Rollback") = {1}
    /\ last.ret = last.arg

\* C5: a finish call given a failure whose status is neither ABORTED nor
\* NOT_FOUND has sent exactly one rollback RPC and no commit RPC, and returns the
\* original failure.
C5_OtherStatusRollsBack ==
    (FinishErr /\ last.arg.err.status \in {Some(c) : c \in Codes \ {"Aborted", "NotFound"}}) =>
        /\ Cardinality(RpcsOf("Rollback")) = 1
        /\ RpcsOf("Commit") = {}
        /\ last.ret = last.arg

C5_Witness ==
    /\ FinishErr
    /\ last.arg.err.status = Some("DeadlineExceeded")
    /\ Cardinality(RpcsOf("Rollback")) = 1
    /\ last.ret = last.arg

\* C6: a finish call that sent a rollback returns the failure it was given,
\* whether the rollback RPC succeeded or failed.
C6_RollbackNeverShadows ==
    (last.op = "finish" /\ RpcsOf("Rollback") # {}) =>
        /\ ~last.arg.ok
        /\ last.ret = Err(last.arg.err)

C6_Witness ==
    /\ last.op = "finish"
    /\ \E i \in RpcsOf("Rollback") : ~last.rpcs[i].res.ok
    /\ last.ret = Err(last.arg.err)

\* C7: a second finish call on the same transaction sends no commit and no
\* rollback RPC.
C7_SecondFinishSendsNothing ==
    (last.op = "finish" /\ nfinish >= 2) =>
        RpcsOf("Commit") = {} /\ RpcsOf("Rollback") = {}

\* C8 as stated: whatever the commit and rollback RPCs reply, finish returns the
\* success value or the failure it was given.
C8_FinishReturnsOriginal ==
    last.op = "finish" =>
        IF last.arg.ok
        THEN last.ret.ok /\ last.ret.val[2] = last.arg.val
        ELSE last.ret = last.arg

\* C8 amended: finish returns the failure it was given; given a success it
\* returns that value paired with the commit timestamp, or, when the commit RPC
\* failed, the commit error converted to E.
C8_FinishReturnsOriginalOrCommitError ==
    last.op = "finish" =>
        IF last.arg.ok
        THEN \/ last.ret.ok /\ last.ret.val[2] = last.arg.val /\ ~CommitFailed
             \/ /\ ~last.ret.ok
                /\ \E i \in RpcsOf("Commit") :
                      ~last.rpcs[i].res.ok /\ last.ret.err = E_from(last.rpcs[i].res.err)
        ELSE last.ret = last.arg

C8_Witness ==
    /\ FinishOk
    /\ CommitFailed
    /\ last.ret = Err(E_from("DeadlineExceeded"))

\* C9: the seqno values of the ExecuteSql and ExecuteBatchDml requests sent on a
\* transaction are 0, 1, 2, ... in the order sent, whatever other calls come
\* between them.
C9_SeqnosCountFromZero ==
    \A i \in 1..Len(seqnos) : seqnos[i] = i - 1

C9_Witness ==
    /\ seqnos = <<0, 1>>
    /\ last.op = "batch_update"
    /\ nfinish = 1

RECURSIVE Flatten(_)
Flatten(xss) == IF xss = <<>> THEN <<>> ELSE Head(xss) \o Flatten(Tail(xss))

\* C10: the mutations of every commit request are the arguments of the
\* buffer_write calls made since begin, concatenated in call order.
C10_CommitSendsBufferedWrites ==
    \A i \in RpcsOf("Commit") : last.rpcs[i].req.mutations = Flatten(bw_args)

C10_Witness ==
    /\ bw_args = <<(<<"m2", "m1">>), (<<"m1", "m1">>)>>
    /\ \E i \in RpcsOf("Commit") :
          last.rpcs[i].req.mutations = <<"m2", "m1", "m1", "m1">>

\* C11: when the begin-transaction RPC fails, begin returns a BeginError holding
\* the failure status and the session handle it was given, and no transaction
\* exists: no transaction id, no open state.
BeginCall == last.op \in {"begin", "begin_partitioned_dml"}

C11_FailedBeginReturnsSession ==
    (BeginCall /\ ~last.rpcs[1].res.ok) =>
        /\ ~last.ret.ok
        /\ last.ret.err.status = last.rpcs[1].res.err
        /\ last.ret.err.session.name = last.arg.name
        /\ session = last.ret.err.session
        /\ state = "failed"
        /\ tx_id = ""
        /\ transaction_selector = [id |-> ""]

C11_Witness ==
    /\ last.op = "begin"
    /\ last.arg = [name |-> "sessions/b", valid |-> TRUE]
    /\ last.ret = Err([status |-> "DeadlineExceeded",
                       session |-> [name |-> "sessions/b", valid |-> TRUE]])
    /\ state = "failed"

\* A step that is one call on the transaction.
CallStep == ncalls' = ncalls + 1

\* C12: an update or batch_update call whose RPC failed sent that one RPC only
\* (no rollback, no commit), returns the RPC's failure as it is, and leaves the
\* transaction open with the same transaction id, session and write buffer.
C12_FailedStatementLeavesTransactionOpen ==
    [][(CallStep /\ last'.op \in {"update", "batch_update"} /\ ~last'.rpcs[1].res.ok) =>
          /\ Len(last'.rpcs) = 1
          /\ last'.rpcs[1].req.rpc \in {"ExecuteSql", "ExecuteBatchDml"}
          /\ last'.ret = Err(last'.rpcs[1].res.err)
          /\ state' = "open"
          /\ tx_id' = tx_id
          /\ transaction_selector' = transaction_selector
          /\ session'.name = session.name
          /\ wb' = wb]_vars

C12_Witness ==
    /\ last.op = "batch_update"
    /\ last.rpcs[1].res = Err("Aborted")
    /\ last.ret = Err("Aborted")
    /\ wb = <<"m1", "m2">>
    /\ state = "open"

\* C13: a buffer_write call sends no RPC and does not fail; it appends its
\* argument to the write buffer and leaves the sequence counter, the transaction
\* id and the session as they were.  No request other than a commit request
\* carries mutations.
C13_BufferWriteOnlyAppends ==
    /\ [][(CallStep /\ last'.op = "buffer_write") =>
             /\ last'.rpcs = <<>>
             /\ last'.ret.ok
             /\ wb' = wb \o last'.arg
             /\ sequence_number' = sequence_number
             /\ tx_id' = tx_id
             /\ transaction_selector' = transaction_selector
             /\ session' = session]_vars
    /\ [](\A i \in 1..Len(last.rpcs) :
             "mutations" \in DOMAIN last.rpcs[i].req => last.rpcs[i].req.rpc = "Commit")

C13_Witness ==
    /\ last.op = "buffer_write"
    /\ last.arg = <<"m2", "m1">>
    /\ wb = <<"m1", "m2", "m1">>
    /\ last.rpcs = <<>>

\* The row count a reply's stats stand for: the exact count, else the lower
\* bound, else 0.
ExpectedRowCount(stats) ==
    CASE stats = Exact5 -> 5
      [] stats = LowerBound7 -> 7
      [] stats = NoRowCount -> 0
      [] stats = NoStats -> 0

\* C14: a successful update returns the exact row count of the reply's stats
\* when there is one, the lower-bound count when there is only that, and 0 when
\* the stats are absent or hold no row count.
C14_RowCountExtraction ==
    (last.op = "update" /\ last.rpcs[1].res.ok) =>
        last.ret = Ok(ExpectedRowCount(last.rpcs[1].res.val.stats))

C14_Witness ==
    /\ last.op = "update"
    /\ last.rpcs[1].res = Ok([stats |-> LowerBound7])
    /\ last.ret = Ok(7)

\* C15: in every call, each RPC's result has been handed to the session handle
\* exactly once, in the order the RPCs were sent, by the time the call returns
\* (the call's return value is computed from what the handle gives back).  This
\* includes the rollback that finish sends and whose failure it discards.
C15_EveryResultReported ==
    /\ Len(last.reports) = Len(last.rpcs)
    /\ \A i \in 1..Len(last.rpcs) : last.reports[i] = last.rpcs[i].res

C15_Witness ==
    /\ last.op = "finish"
    /\ Len(last.rpcs) = 1
    /\ last.rpcs[1].req.rpc = "Rollback"
    /\ last.rpcs[1].res = Err("NotFound")
    /\ last.reports = <<Err("NotFound")>>
    /\ last.ret = last.arg

\* C16: a batch_update call, whatever the number of statements, sends one
\* ExecuteBatchDml request stamped with the current sequence number and advances
\* the counter by one; when the RPC succeeds it returns one row count per result
\* set of the reply, in the reply's order; when the RPC fails it returns the
\* error alone.
C16_BatchTakesOneSeqno ==
    [][(CallStep /\ last'.op = "batch_update") =>
          /\ Len(last'.rpcs) = 1
          /\ last'.rpcs[1].req.rpc = "ExecuteBatchDml"
          /\ last'.rpcs[1].req.statements = last'.arg
          /\ last'.rpcs[1].req.seqno = sequence_number
          /\ sequence_number' = sequence_number + 1
          /\ IF last'.rpcs[1].res.ok
             THEN LET sets == last'.rpcs[1].res.val.result_sets
                  IN  /\ last'.ret.ok
                      /\ Len(last'.ret.val) = Len(sets)
                      /\ \A i \in 1..Len(sets) :
                            last'.ret.val[i] = ExpectedRowCount(sets[i].stats)
             ELSE last'.ret = Err(last'.rpcs[1].res.err)]_vars

C16_Witness ==
    /\ last.op = "batch_update"
    /\ last.arg = <<"UPDATE t", "UPDATE t">>
    /\ last.rpcs[1].res.ok
    /\ Len(last.rpcs[1].res.val.result_sets) = 3
    /\ last.ret = Ok(<<0, 5, 7>>)
    /\ sequence_number = 1

\* C17: a direct commit call sends exactly one RPC, a commit, whether it
\* succeeds or fails; it returns the server's response, or the failure as it is.
C17_CommitSendsOneRpc ==
    last.op = "commit" =>
        /\ Len(last.rpcs) = 1
        /\ last.rpcs[1].req.rpc = "Commit"
        /\ last.ret = IF last.rpcs[1].res.ok THEN Ok(last.rpcs[1].res.val)
                                             ELSE Err(last.rpcs[1].res.err)

C17_Witness ==
    /\ last.op = "commit"
    /\ Len(last.rpcs) = 1
    /\ last.rpcs[1].res = Err("Aborted")
    /\ last.ret = Err("Aborted")

\* The transaction id a request of the transaction carries.
TxIdOf(req) ==
    IF req.rpc = "Rollback" THEN req.transaction_id ELSE req.transaction.id

\* C18: a successful begin binds the transaction to the id of the begin reply
\* and to the session the begin request went through; afterwards neither
\* changes, and every ExecuteSql, ExecuteBatchDml, Commit and Rollback request
\* carries that id and that session's name.
C18_RequestsCarryIdAndSession ==
    /\ []((BeginCall /\ last.ret.ok) =>
             /\ tx_id = last.rpcs[1].res.val.id
             /\ transaction_selector = [id |-> last.rpcs[1].res.val.id]
             /\ session.name = last.rpcs[1].req.session
             /\ session.name = last.arg.name)
    /\ [][state = "open" =>
             /\ state' = "open"
             /\ tx_id' = tx_id
             /\ transaction_selector' = transaction_selector
             /\ session'.name = session.name]_vars
    /\ []((state = "open" /\ ~BeginCall) =>
             \A i \in 1..Len(last.rpcs) :
                /\ last.rpcs[i].req.session = session.name
                /\ TxIdOf(last.rpcs[i].req) = tx_id)

C18_Witness ==
    /\ state = "open"
    /\ tx_id = "TX2"
    /\ session.name = "sessions/b"
    /\ last.op = "rollback"
    /\ last.rpcs[1].req = [rpc |-> "Rollback", transaction_id |-> "TX2", session |-> "sessions/b"]
    /\ seqnos = <<0>>
    /\ nfinish = 1

\* C19: an update or batch_update call stamps its request with the current
\* sequence number and advances the counter by one, whether the RPC succeeds or
\* fails; buffer_write, commit, rollback and finish leave the counter as it is.
\* So a statement sent again after a failure carries a seqno above the failed one.
C19_CounterAdvancesPerStatement ==
    [][CallStep =>
          IF last'.op \in {"update", "batch_update"}
          THEN /\ last'.rpcs[1].req.seqno = sequence_number
               /\ sequence_number' = sequence_number + 1
          ELSE sequence_number' = sequence_number]_vars

C19_Witness ==
    /\ last.op = "update"
    /\ ~last.ret.ok
    /\ seqnos = <<0, 1, 2>>
    /\ sequence_number = 3

\* C20: commit, rollback and finish leave the write buffer as it is; a commit
\* request carries a copy of the buffer, which still holds those mutations
\* after the call, whether the commit RPC succeeded or failed, so a commit
\* following a commit attempt sends the same mutations again.
C20_CommitKeepsBuffer ==
    [][(CallStep /\ last'.op \in {"commit", "rollback", "finish"}) =>
          /\ wb' = wb
          /\ \A i \in 1..Len(last'.rpcs) :
                last'.rpcs[i].req.rpc = "Commit" => last'.rpcs[i].req.mutations = wb'
          /\ (last.op = "commit" /\ last'.op = "commit") =>
                last'.rpcs[1].req.mutations = last.rpcs[1].req.mutations]_vars

C20_Witness ==
    /\ last.op = "commit"
    /\ nfinish = 1
    /\ ncalls = 3
    /\ ~last.rpcs[1].res.ok
    /\ last.rpcs[1].req.mutations = <<"m1", "m2">>
    /\ wb = <<"m1", "m2">>

====
